---------------------------- MODULE Spec2Model ----------------------------
(***************************************************************************)
(* BarBot (src/bot.py): the per-chat handler Bar_Bot_Handler, its three    *)
(* event handlers (location, text, callback query) and the attributes it   *)
(* keeps on the handler object between events.                             *)
(*                                                                         *)
(* Text is modelled as a sequence of atoms: an atom is a one-character     *)
(* string, or an opaque word such as a venue name.  Handlers are cut at    *)
(* their await points; between two awaits a handler runs without another   *)
(* chat's handler running.                                                 *)
(***************************************************************************)
EXTENDS Integers, Sequences, FiniteSets, TLC

(***************************************************************************)
(* Bounds of the model.                                                    *)
(***************************************************************************)
\* The longest venue list the search service answers with (at most
\* NUMBER_OF_BARS in the program).
MaxResults == 2
\* The number of events delivered to a chat that is the only one active.
MaxEvents == 3
\* The number of search, map and send failures in one run.
MaxFailures == 1
\* The largest rating a venue is given, in tenths
MaxRating == 50

(***************************************************************************)
(* Program constants.                                                      *)
(***************************************************************************)
NUMBER_OF_BARS == 6
HELP_MESSAGE == <<"Click button to find bars near your location. ...">>
WELCOME_MESSAGE == <<"Welcome to BarBot ", "WINE_GLASS_GLYPH", ". Find any bars nearby.">>
\* (a keyboard whose button does not ask for the location)
KeyboardWithoutLocation ==
    [keyboard |-> << <<[text |-> "Bars near my location",
                        request_location |-> FALSE]>> >>]

main_keyboard ==
    [keyboard |-> << <<[text |-> "Bars near my location",
                        request_location |-> TRUE]>> >>]

Chats == {1, 2}

(***************************************************************************)
(* Python string and list primitives used by the handlers.                 *)
(***************************************************************************)
Digits == <<"0", "1", "2", "3", "4", "5", "6", "7", "8", "9">>

IsDigit(ch) == \E d \in 1..10 : Digits[d] = ch

DigitValue(ch) == (CHOOSE d \in 1..10 : Digits[d] = ch) - 1

\* str(n) and '%s' % n, '%d' % n for an integer n.
RECURSIVE StrNat(_)
StrNat(n) == IF n < 10 THEN <<Digits[n + 1]>>
             ELSE StrNat(n \div 10) \o <<Digits[(n % 10) + 1]>>

Str(n) == IF n < 0 THEN <<"-">> \o StrNat(-n) ELSE StrNat(n)

\* s.startswith(p)
startswith(s, p) == /\ Len(s) >= Len(p)
                    /\ SubSeq(s, 1, Len(p)) = p

\* s[k:] for a 0-based k >= 0
SliceFrom(s, k) == SubSeq(s, k + 1, Len(s))

\* s.strip() for the blank " "
RECURSIVE lstrip(_)
lstrip(s) == IF s # <<>> /\ Head(s) = " " THEN lstrip(Tail(s)) ELSE s

RECURSIVE rstrip(_)
rstrip(s) == IF s # <<>> /\ s[Len(s)] = " "
             THEN rstrip(SubSeq(s, 1, Len(s) - 1)) ELSE s

strip(s) == rstrip(lstrip(s))

\* s.lower() on the letters the inputs use
LowerChar(ch) ==
    CASE ch = "S" -> "s" [] ch = "T" -> "t" [] ch = "A" -> "a"
      [] ch = "R" -> "r" [] ch = "H" -> "h" [] ch = "E" -> "e"
      [] ch = "L" -> "l" [] ch = "P" -> "p" [] ch = "B" -> "b"
      [] OTHER -> ch

lower(s) == [i \in 1..Len(s) |-> LowerChar(s[i])]

\* The digits of an int() literal, after the sign: digits, with single
\* underscores allowed between two digits.
IsDigitRun(s) ==
    /\ s # <<>>
    /\ IsDigit(s[1])
    /\ IsDigit(s[Len(s)])
    /\ \A i \in 1..Len(s) : IsDigit(s[i]) \/ s[i] = "_"
    /\ \A i \in 1..(Len(s) - 1) : ~(s[i] = "_" /\ s[i + 1] = "_")

RECURSIVE NatValue(_, _)
NatValue(s, acc) ==
    IF s = <<>> THEN acc
    ELSE IF Head(s) = "_" THEN NatValue(Tail(s), acc)
    ELSE NatValue(Tail(s), 10 * acc + DigitValue(Head(s)))

IntBody(s) == IF s # <<>> /\ (Head(s) = "-" \/ Head(s) = "+") THEN Tail(s) ELSE s

\* int(s) raises ValueError unless s is a decimal literal.
IntParses(s) == IsDigitRun(IntBody(strip(s)))

int(s) == LET t == strip(s)
          IN  IF t # <<>> /\ Head(t) = "-"
              THEN 0 - NatValue(IntBody(t), 0)
              ELSE NatValue(IntBody(t), 0)

\* lst[idx] for a Python list: a negative idx counts from the end, and an
\* idx outside -len..len-1 raises IndexError.
PyIndexInRange(lst, idx) == /\ idx < Len(lst)
                            /\ idx >= 0 - Len(lst)

PyIndex(lst, idx) == IF idx < 0 THEN lst[Len(lst) + idx + 1] ELSE lst[idx + 1]

\* emoji.emojize(text, use_aliases=True), atom by atom
EmojizeAtom(a) == CASE a = ":star:" -> "STAR_GLYPH"
                    [] a = ":telephone:" -> "TELEPHONE_GLYPH"
                    [] OTHER -> a

emojize(text) == [i \in 1..Len(text) |-> EmojizeAtom(text[i])]


(***************************************************************************)
(* The venue-search service and search_bars_nearby.                        *)
(***************************************************************************)
\* Business records the search service can answer with.  A rating is held
\* in tenths (40 is 4.0, 45 is 4.5).
Businesses ==
    { [name |-> "Alpha", rating |-> 40,
       coordinates |-> [latitude |-> 1, longitude |-> 2],
       display_phone |-> "555-0001",
       location |-> [city |-> "Springfield", display_address |-> <<>>]],
      [name |-> "Beta", rating |-> 45,
       coordinates |-> [latitude |-> 3, longitude |-> 4],
       display_phone |-> "",
       location |-> [city |-> "Springfield",
                     display_address |-> <<"2 Main St", "Springfield">>]] }

Min(a, b) == IF a < b THEN a ELSE b

\* response["businesses"] for a query with limit=NUMBER_OF_BARS
Responses ==
    UNION { [1..n -> Businesses] : n \in 0..Min(MaxResults, NUMBER_OF_BARS) }

\* Where the user can be
Locations == { [latitude |-> 10, longitude |-> 20] }

\* "\n".join(parts)
RECURSIVE join(_)
join(parts) == IF parts = <<>> THEN <<>>
               ELSE IF Len(parts) = 1 THEN <<parts[1]>>
               ELSE <<parts[1], "\n">> \o join(Tail(parts))

\* The Bar namedtuple built from one business
MakeBar(business) ==
    [name |-> business.name,
     coordinates |-> business.coordinates,
     display_phone |-> business.display_phone,
     display_address |-> join(business.location.display_address),
     rating |-> business.rating]

search_bars_nearby(response) == [i \in 1..Len(response) |-> MakeBar(response[i])]

(***************************************************************************)
(* create_map and the menu built by the location handler.                  *)
(***************************************************************************)
\* (enumerate(markers) without the start of 1)
MarkerLabelFromZero(i) == Str(i - 1)

\* enumerate(markers, 1): the label of the marker at 1-based position i
MarkerLabel(i) == Str(i)

\* The URL, held as what it encodes
create_map(center_lat, center_lon, markers) ==
    [lat |-> center_lat, lon |-> center_lon, zoom |-> 15,
     size_x |-> 400, size_y |-> 400,
     markers |-> [i \in 1..Len(markers) |->
                    [lat |-> markers[i].lat, lon |-> markers[i].lon,
                     label |-> MarkerLabel(i)]]]

\* bar_rating.is_integer(), "%d" and "%1.1f"
\* (a rating always formatted with '%1.1f')
FormatRatingAlwaysDecimal(rating) ==
    Str(rating \div 10) \o <<".">> \o Str(rating % 10)

FormatRating(rating) ==
    IF rating % 10 = 0 THEN Str(rating \div 10)
    ELSE Str(rating \div 10) \o <<".">> \o Str(rating % 10)

\* "{option_number}. {bar_name}. :star: {bar_rating}", emojized
BarText(i, bar) ==
    emojize(Str(i) \o <<".", " ", bar.name, ".", " ", ":star:", " ">>
            \o FormatRating(bar.rating))

\* 'bar_%s' % i
CallbackData(i) == <<"b", "a", "r", "_">> \o Str(i)

\* list_of_map_markers after the loop over enumerate(self._list_of_bars, 1)
MapMarkers(bars) ==
    [i \in 1..Len(bars) |-> [lat |-> bars[i].coordinates.latitude,
                             lon |-> bars[i].coordinates.longitude]]

\* inline_keyboard after the same loop: one row of one button per bar
InlineKeyboard(bars) ==
    [i \in 1..Len(bars) |->
        << [text |-> BarText(i, bars[i]), callback_data |-> CallbackData(i)] >>]

InlineKeyboardMarkup(inline_keyboard) == [inline_keyboard |-> inline_keyboard]

(***************************************************************************)
(* The detail message built by the callback handler.                       *)
(***************************************************************************)
\* (an index taken from the token as it is)
BarIndexNoOffset(n) == n

\* bar_index = int(query_data[4:]) - 1
BarIndex(n) == n - 1

\* (a message that appends the address line without testing the address)
ExtraInfoAlwaysAddress(bar) ==
    emojize(<<"*", bar.name, "*">>
            \o (IF bar.display_phone # ""
                THEN <<"\n", ":telephone:", " ", bar.display_phone, "\n">>
                ELSE <<>>)
            \o <<"\n">> \o bar.display_address)

ExtraInfoOfBar(bar) ==
    emojize(<<"*", bar.name, "*">>
            \o (IF bar.display_phone # ""
                THEN <<"\n", ":telephone:", " ", bar.display_phone, "\n">>
                ELSE <<>>)
            \o (IF bar.display_address # <<>>
                THEN <<"\n">> \o bar.display_address
                ELSE <<>>))

(***************************************************************************)
(* Outbound operations of the sender.                                      *)
(***************************************************************************)
NoMarkup == [inline_keyboard |-> <<>>]

SendPhoto(url) == [op |-> "sendPhoto", photo |-> url]

SendMessage(text, reply_markup, parse_mode) ==
    [op |-> "sendMessage", text |-> text, reply_markup |-> reply_markup,
     parse_mode |-> parse_mode]

SendLocation(latitude, longitude) ==
    [op |-> "sendLocation", latitude |-> latitude, longitude |-> longitude]

LocationPrompt == <<"Select one option to get more information of the bar.">>
SelectionPrompt == <<"Select a bar">>


(***************************************************************************)
(* Inbound events.                                                         *)
(***************************************************************************)
Texts == { <<"/", "s", "t", "a", "r", "t">>,
           <<" ", "/", "S", "T", "A", "R", "T">>,
           <<"/", "h", "e", "l", "p">>,
           <<"/", "H", "e", "l", "p", " ">>,
           <<"h", "i">> }

BarPrefix == <<"b", "a", "r", "_">>

\* callback_data values a client can send back: the tokens of a menu, the
\* tokens just outside it, and data that is no number or has no prefix
QueryData == { CallbackData(k) : k \in -1..(MaxResults + 1) }
             \cup { BarPrefix, BarPrefix \o <<"x">>, <<"m", "e", "n", "u">> }

NoLocation == [latitude |-> 0, longitude |-> 0]

NoMsg == [flavor |-> "none", content_type |-> "", location |-> NoLocation,
          text |-> <<>>, data |-> <<>>]

LocationMsg(location) ==
    [flavor |-> "chat", content_type |-> "location", location |-> location,
     text |-> <<>>, data |-> <<>>]

TextMsg(text) ==
    [flavor |-> "chat", content_type |-> "text", location |-> NoLocation,
     text |-> text, data |-> <<>>]

CallbackMsg(data) ==
    [flavor |-> "callback_query", content_type |-> "", location |-> NoLocation,
     text |-> <<>>, data |-> data]

(***************************************************************************)
(* State.                                                                  *)
(***************************************************************************)
VARIABLES
    pc,          \* per chat: "closed" (no handler object), "idle", or the
                 \* await the chat's handler is suspended at
    msg,         \* per chat: the event being processed, or processed last
    locals,      \* per chat: the handler's local variables across awaits
    attrs,       \* per handler: the attributes set on the handler object
    list_of_bars,                   \* per handler: self._list_of_bars
    map_url,                        \* per handler: self._map_url
    inline_bar_selection_keyboard,  \* per handler: self._inline_bar_selection_keyboard
    first_time,                     \* per handler: self._first_time
    sent,        \* per chat: the sends delivered while processing msg
    raised,      \* per chat: the exception that ended the processing of msg
    quota,       \* per chat: the number of events still to be delivered
    failures,    \* the number of failures injected so far
    lastSearch,  \* per chat: what the chat's latest search returned
    history,     \* per chat: where the chat is between search and selections
    obs          \* per chat: what preceded msg in the chat

vars == <<pc, msg, locals, attrs, list_of_bars, map_url,
          inline_bar_selection_keyboard, first_time, sent, raised, quota,
          failures, lastSearch, history, obs>>

session == <<attrs, list_of_bars, map_url, inline_bar_selection_keyboard,
             first_time>>

NoBar == [name |-> "", coordinates |-> [latitude |-> 0, longitude |-> 0],
          display_phone |-> "", display_address |-> <<>>, rating |-> 0]

NoUrl == [lat |-> 0, lon |-> 0, zoom |-> 0, size_x |-> 0, size_y |-> 0,
          markers |-> <<>>]

NoLocals == [inline_keyboard |-> <<>>, bar |-> NoBar]

NoObs == [nth |-> 0, afterAbort |-> FALSE]

Failures == {"SearchError", "MapError", "TransportError"}

FirstChat == CHOOSE c \in Chats : \A d \in Chats : c <= d

\* (one handler object serving every chat)
SharedDelegate(c) == FirstChat

\* per_chat_id(): the handler object that serves chat c
Delegate(c) == c

\* The events delivered when every chat is active: enough for a search and
\* a selection in the first chat while each other chat sends one event.
SharedQuota == [first |-> 2, other |-> 1]

\* Either only the first chat is active and receives MaxEvents events, or
\* every chat is active and receives its share of SharedQuota.
Quotas == { [c \in Chats |-> IF c = FirstChat THEN MaxEvents ELSE 0],
            [c \in Chats |-> IF c = FirstChat THEN SharedQuota.first
                                              ELSE SharedQuota.other] }

\* The attributes are created by assignment: Bar_Bot_Handler.__init__ sets
\* none of them.
Init ==
    /\ pc = [c \in Chats |-> "closed"]
    /\ msg = [c \in Chats |-> NoMsg]
    /\ locals = [c \in Chats |-> NoLocals]
    /\ attrs = [h \in Chats |-> {}]
    /\ list_of_bars = [h \in Chats |-> <<>>]
    /\ map_url = [h \in Chats |-> NoUrl]
    /\ inline_bar_selection_keyboard = [h \in Chats |-> NoMarkup]
    /\ first_time = [h \in Chats |-> FALSE]
    /\ sent = [c \in Chats |-> <<>>]
    /\ raised = [c \in Chats |-> "none"]
    /\ quota \in Quotas
    /\ failures = 0
    /\ lastSearch = [c \in Chats |-> <<>>]
    /\ history = [c \in Chats |-> "NoSearch"]
    /\ obs = [c \in Chats |-> NoObs]

\* The chat's handler is waiting for its next message (a chat message
\* creates the handler when there is none).
CanReceive(c) == pc[c] \in {"closed", "idle"} /\ quota[c] > 0

\* What every delivery of an event m to chat c does to the bookkeeping
\* (fails: a service fails before the handler's first await)
Deliver(c, m, nth, fails) ==
    /\ msg' = [msg EXCEPT ![c] = m]
    /\ sent' = [sent EXCEPT ![c] = <<>>]
    /\ quota' = [quota EXCEPT ![c] = @ - 1]
    /\ failures' = IF fails THEN failures + 1 ELSE failures
    /\ obs' = [obs EXCEPT ![c] = [nth |-> nth,
                                  afterAbort |-> raised[c] \in Failures]]


(***************************************************************************)
(* on_chat_message, content_type "location".                               *)
(***************************************************************************)
\* (a location branch that leaves the flag cleared)
FirstTimeNotSet == FALSE

\* self._first_time = True, the last statement of the location branch
FirstTimeAfterSearch == TRUE

\* A location arrives; the search and the map succeed.  The handler stores
\* the bars and the map URL and suspends in sendPhoto.
RecvLocation(c, location, response) ==
    LET h == Delegate(c)
        bars == search_bars_nearby(response)
        url == create_map(location.latitude, location.longitude,
                          MapMarkers(bars))
    IN  /\ CanReceive(c)
        /\ Deliver(c, LocationMsg(location), 0, FALSE)
        /\ list_of_bars' = [list_of_bars EXCEPT ![h] = bars]
        /\ map_url' = [map_url EXCEPT ![h] = url]
        /\ attrs' = [attrs EXCEPT ![h] = @ \cup {"_list_of_bars", "_map_url"}]
        /\ locals' = [locals EXCEPT ![c] =
                        [NoLocals EXCEPT !.inline_keyboard = InlineKeyboard(bars)]]
        /\ lastSearch' = [lastSearch EXCEPT ![c] = bars]
        /\ pc' = [pc EXCEPT ![c] = "loc_sendPhoto"]
        /\ raised' = [raised EXCEPT ![c] = "none"]
        /\ UNCHANGED <<inline_bar_selection_keyboard, first_time, history>>

\* A location arrives and search_bars_nearby raises: nothing is stored.
RecvLocationSearchFails(c, location) ==
    /\ CanReceive(c)
    /\ failures < MaxFailures
    /\ Deliver(c, LocationMsg(location), 0, TRUE)
    /\ pc' = [pc EXCEPT ![c] = "idle"]
    /\ raised' = [raised EXCEPT ![c] = "SearchError"]
    /\ locals' = [locals EXCEPT ![c] = NoLocals]
    /\ UNCHANGED <<session, lastSearch, history>>

\* A location arrives, the search answers and building the map raises: the
\* bars are stored already, the map URL is not.
RecvLocationMapFails(c, location, response) ==
    LET h == Delegate(c)
        bars == search_bars_nearby(response)
    IN  /\ CanReceive(c)
        /\ failures < MaxFailures
        /\ Deliver(c, LocationMsg(location), 0, TRUE)
        /\ list_of_bars' = [list_of_bars EXCEPT ![h] = bars]
        /\ attrs' = [attrs EXCEPT ![h] = @ \cup {"_list_of_bars"}]
        /\ lastSearch' = [lastSearch EXCEPT ![c] = bars]
        /\ pc' = [pc EXCEPT ![c] = "idle"]
        /\ raised' = [raised EXCEPT ![c] = "MapError"]
        /\ locals' = [locals EXCEPT ![c] = NoLocals]
        /\ UNCHANGED <<map_url, inline_bar_selection_keyboard, first_time,
                       history>>

\* sendPhoto(map_url) returns: the keyboard is stored and the handler
\* suspends in sendMessage.
\* (a location branch that goes on to the prompt without the map image)
LocSendPhotoSkipped(c) ==
    LET h == Delegate(c)
        markup == InlineKeyboardMarkup(locals[c].inline_keyboard)
    IN  /\ pc[c] = "loc_sendPhoto"
        /\ inline_bar_selection_keyboard' =
               [inline_bar_selection_keyboard EXCEPT ![h] = markup]
        /\ attrs' = [attrs EXCEPT ![h] = @ \cup {"_inline_bar_selection_keyboard"}]
        /\ pc' = [pc EXCEPT ![c] = "loc_sendMessage"]
        /\ UNCHANGED <<msg, locals, list_of_bars, map_url, first_time, raised,
                       quota, failures, lastSearch, history, obs, sent>>

LocSendPhotoDone(c) ==
    LET h == Delegate(c)
        markup == InlineKeyboardMarkup(locals[c].inline_keyboard)
    IN  /\ pc[c] = "loc_sendPhoto"
        /\ sent' = [sent EXCEPT ![c] = Append(@, SendPhoto(map_url[h]))]
        /\ inline_bar_selection_keyboard' =
               [inline_bar_selection_keyboard EXCEPT ![h] = markup]
        /\ attrs' = [attrs EXCEPT ![h] = @ \cup {"_inline_bar_selection_keyboard"}]
        /\ pc' = [pc EXCEPT ![c] = "loc_sendMessage"]
        /\ UNCHANGED <<msg, locals, list_of_bars, map_url, first_time, raised,
                       quota, failures, lastSearch, history, obs>>

\* sendMessage(prompt, reply_markup=keyboard) returns: the flag is set and
\* the handler returns.
LocSendMessageDone(c) ==
    LET h == Delegate(c)
    IN  /\ pc[c] = "loc_sendMessage"
        /\ sent' = [sent EXCEPT ![c] =
                      Append(@, SendMessage(LocationPrompt,
                                            inline_bar_selection_keyboard[h],
                                            "none"))]
        /\ first_time' = [first_time EXCEPT ![h] = FirstTimeAfterSearch]
        /\ attrs' = [attrs EXCEPT ![h] = @ \cup {"_first_time"}]
        /\ history' = [history EXCEPT ![c] = "AwaitingFirstSelection"]
        /\ pc' = [pc EXCEPT ![c] = "idle"]
        /\ locals' = [locals EXCEPT ![c] = NoLocals]
        /\ UNCHANGED <<msg, list_of_bars, map_url,
                       inline_bar_selection_keyboard, raised, quota, failures,
                       lastSearch, obs>>

(***************************************************************************)
(* on_chat_message, content_type "text".                                   *)
(***************************************************************************)
\* text = msg["text"].strip().lower()
Command(text) == lower(strip(text))

StartCommand == <<"/", "s", "t", "a", "r", "t">>
HelpCommand == <<"/", "h", "e", "l", "p">>

\* (a text branch that sets the flag again on every text)
RecvTextResetsFlag(c, text) ==
    /\ CanReceive(c)
    /\ Deliver(c, TextMsg(text), 0, FALSE)
    /\ pc' = [pc EXCEPT ![c] = IF Command(text) = StartCommand
                              THEN "start_sendMessage" ELSE "idle"]
    /\ raised' = [raised EXCEPT ![c] = "none"]
    /\ locals' = [locals EXCEPT ![c] = NoLocals]
    /\ first_time' = [first_time EXCEPT ![Delegate(c)] = TRUE]
    /\ UNCHANGED <<attrs, list_of_bars, map_url,
                   inline_bar_selection_keyboard, lastSearch, history>>

\* (a text branch whose fall-through answers with the welcome message)
RecvTextAnswersAll(c, text) ==
    /\ CanReceive(c)
    /\ Deliver(c, TextMsg(text), 0, FALSE)
    /\ pc' = [pc EXCEPT ![c] = IF Command(text) = HelpCommand
                              THEN "idle" ELSE "start_sendMessage"]
    /\ raised' = [raised EXCEPT ![c] = "none"]
    /\ locals' = [locals EXCEPT ![c] = NoLocals]
    /\ UNCHANGED <<session, lastSearch, history>>

\* "/start" suspends in sendMessage.  "/help" calls self.sender.sendMessage
\* without awaiting it: the coroutine object is dropped and never runs, and
\* the handler returns.  Any other text falls through.
RecvText(c, text) ==
    /\ CanReceive(c)
    /\ Deliver(c, TextMsg(text), 0, FALSE)
    /\ pc' = [pc EXCEPT ![c] = IF Command(text) = StartCommand
                              THEN "start_sendMessage" ELSE "idle"]
    /\ raised' = [raised EXCEPT ![c] = "none"]
    /\ locals' = [locals EXCEPT ![c] = NoLocals]
    /\ UNCHANGED <<session, lastSearch, history>>

\* sendMessage(WELCOME_MESSAGE, reply_markup=main_keyboard) returns
StartSendMessageDone(c) ==
    /\ pc[c] = "start_sendMessage"
    /\ sent' = [sent EXCEPT ![c] =
                  Append(@, [op |-> "sendMessage", text |-> WELCOME_MESSAGE,
                             reply_markup |-> main_keyboard,
                             parse_mode |-> "none"])]
    /\ pc' = [pc EXCEPT ![c] = "idle"]
    /\ UNCHANGED <<msg, locals, session, raised, quota, failures, lastSearch,
                   history, obs>>


(***************************************************************************)
(* on_callback_query.                                                      *)
(***************************************************************************)
\* (a handler that forgets to clear the flag)
FirstTimeKept == TRUE

\* self._first_time = False, on the first selection
FirstTimeAfterSelection == FALSE

\* bar_index = int(query_data[4:]) - 1 ; bar = self._list_of_bars[bar_index]
\* The statements up to the next await: the exception they raise, or the bar.
Resolve(h, data) ==
    LET digits == SliceFrom(data, 4)
    IN  IF ~IntParses(digits)
        THEN [raised |-> "ValueError", bar |-> NoBar]
        ELSE IF "_list_of_bars" \notin attrs[h]
        THEN [raised |-> "AttributeError", bar |-> NoBar]
        ELSE IF ~PyIndexInRange(list_of_bars[h], BarIndex(int(digits)))
        THEN [raised |-> "IndexError", bar |-> NoBar]
        ELSE [raised |-> "none",
              bar |-> PyIndex(list_of_bars[h], BarIndex(int(digits)))]

\* The handler goes on to the detail message, or ends with the exception.
AfterResolve(c, r) ==
    /\ pc' = [pc EXCEPT ![c] = IF r.raised = "none" THEN "cb_sendDetail"
                                                    ELSE "idle"]
    /\ raised' = [raised EXCEPT ![c] = r.raised]
    /\ locals' = [locals EXCEPT ![c] = [NoLocals EXCEPT !.bar = r.bar]]

\* if bar.coordinates:
HasCoordinates(bar) == DOMAIN bar.coordinates # {}

\* A callback query arrives at the chat's handler (per_chat_id creates a
\* handler for chat messages only: a callback query reaches the handler
\* the chat has).  Data without the prefix falls through.  With the prefix,
\* the handler reads self._first_time: on the first selection it clears the
\* flag and goes on to resolve the bar, otherwise it suspends in sendPhoto.
RecvCallback(c, data) ==
    LET h == Delegate(c)
        isBar == startswith(data, BarPrefix)
        nth == IF ~isBar THEN 0
               ELSE IF history[c] = "AwaitingFirstSelection" THEN 1
               ELSE IF history[c] = "ShowingDetails" THEN 2
               ELSE 0
    IN  /\ pc[c] = "idle"
        /\ quota[c] > 0
        /\ Deliver(c, CallbackMsg(data), nth, FALSE)
        /\ history' = [history EXCEPT ![c] =
                         IF isBar /\ @ # "NoSearch" THEN "ShowingDetails" ELSE @]
        /\ IF ~isBar
           THEN /\ pc' = [pc EXCEPT ![c] = "idle"]
                /\ raised' = [raised EXCEPT ![c] = "none"]
                /\ locals' = [locals EXCEPT ![c] = NoLocals]
                /\ UNCHANGED first_time
           ELSE IF "_first_time" \notin attrs[h]
           THEN /\ pc' = [pc EXCEPT ![c] = "idle"]
                /\ raised' = [raised EXCEPT ![c] = "AttributeError"]
                /\ locals' = [locals EXCEPT ![c] = NoLocals]
                /\ UNCHANGED first_time
           ELSE IF first_time[h]
           THEN /\ first_time' = [first_time EXCEPT ![h] = FirstTimeAfterSelection]
                /\ AfterResolve(c, Resolve(h, data))
           ELSE IF "_map_url" \notin attrs[h]
           THEN /\ pc' = [pc EXCEPT ![c] = "idle"]
                /\ raised' = [raised EXCEPT ![c] = "AttributeError"]
                /\ locals' = [locals EXCEPT ![c] = NoLocals]
                /\ UNCHANGED first_time
           ELSE /\ pc' = [pc EXCEPT ![c] = "cb_sendPhoto"]
                /\ raised' = [raised EXCEPT ![c] = "none"]
                /\ locals' = [locals EXCEPT ![c] = NoLocals]
                /\ UNCHANGED first_time
        /\ UNCHANGED <<attrs, list_of_bars, map_url,
                       inline_bar_selection_keyboard, lastSearch>>

\* sendPhoto(self._map_url) returns; the handler suspends in sendMessage.
CbSendPhotoDone(c) ==
    LET h == Delegate(c)
    IN  /\ pc[c] = "cb_sendPhoto"
        /\ sent' = [sent EXCEPT ![c] = Append(@, SendPhoto(map_url[h]))]
        /\ IF "_inline_bar_selection_keyboard" \in attrs[h]
           THEN /\ pc' = [pc EXCEPT ![c] = "cb_sendMenu"]
                /\ UNCHANGED raised
           ELSE /\ pc' = [pc EXCEPT ![c] = "idle"]
                /\ raised' = [raised EXCEPT ![c] = "AttributeError"]
        /\ UNCHANGED <<msg, locals, session, quota, failures, lastSearch, history, obs>>

\* sendMessage("Select a bar", reply_markup=keyboard) returns; the handler
\* goes on to resolve the bar.
CbSendMenuDone(c) ==
    LET h == Delegate(c)
    IN  /\ pc[c] = "cb_sendMenu"
        /\ sent' = [sent EXCEPT ![c] =
                      Append(@, SendMessage(SelectionPrompt,
                                            inline_bar_selection_keyboard[h],
                                            "none"))]
        /\ AfterResolve(c, Resolve(h, msg[c].data))
        /\ UNCHANGED <<msg, session, quota, failures, lastSearch, history, obs>>

\* sendMessage(extra_info_of_bar, parse_mode="Markdown") returns; with
\* coordinates the handler suspends in sendLocation.
CbSendDetailDone(c) ==
    LET bar == locals[c].bar
    IN  /\ pc[c] = "cb_sendDetail"
        /\ sent' = [sent EXCEPT ![c] =
                      Append(@, SendMessage(ExtraInfoOfBar(bar), NoMarkup,
                                            "Markdown"))]
        /\ IF HasCoordinates(bar)
           THEN /\ pc' = [pc EXCEPT ![c] = "cb_sendLocation"]
                /\ UNCHANGED locals
           ELSE /\ pc' = [pc EXCEPT ![c] = "idle"]
                /\ locals' = [locals EXCEPT ![c] = NoLocals]
        /\ UNCHANGED <<msg, session, raised, quota, failures, lastSearch, history, obs>>

\* sendLocation(latitude, longitude) returns; the handler returns.
CbSendLocationDone(c) ==
    LET bar == locals[c].bar
    IN  /\ pc[c] = "cb_sendLocation"
        /\ sent' = [sent EXCEPT ![c] =
                      Append(@, SendLocation(bar.coordinates.latitude,
                                             bar.coordinates.longitude))]
        /\ pc' = [pc EXCEPT ![c] = "idle"]
        /\ locals' = [locals EXCEPT ![c] = NoLocals]
        /\ UNCHANGED <<msg, session, raised, quota, failures, lastSearch, history, obs>>

(***************************************************************************)
(* The transport and the delegator.                                        *)
(***************************************************************************)
AwaitingSend == {"loc_sendPhoto", "loc_sendMessage", "start_sendMessage",
                 "cb_sendPhoto", "cb_sendMenu", "cb_sendDetail",
                 "cb_sendLocation"}

\* The awaited send raises: the exception leaves the handler, nothing is
\* delivered and no later statement of the handler runs.
SendFails(c) ==
    /\ pc[c] \in AwaitingSend
    /\ failures < MaxFailures
    /\ failures' = failures + 1
    /\ pc' = [pc EXCEPT ![c] = "idle"]
    /\ raised' = [raised EXCEPT ![c] = "TransportError"]
    /\ locals' = [locals EXCEPT ![c] = NoLocals]
    /\ UNCHANGED <<msg, session, sent, quota, lastSearch, history, obs>>

\* timeout=DELEGATOR_TIMEOUT: an idle handler is closed and its attributes
\* go with it.
Reclaim(c) ==
    LET h == Delegate(c)
    IN  /\ pc[c] = "idle"
        /\ pc' = [pc EXCEPT ![c] = "closed"]
        /\ attrs' = [attrs EXCEPT ![h] = {}]
        /\ list_of_bars' = [list_of_bars EXCEPT ![h] = <<>>]
        /\ map_url' = [map_url EXCEPT ![h] = NoUrl]
        /\ inline_bar_selection_keyboard' =
               [inline_bar_selection_keyboard EXCEPT ![h] = NoMarkup]
        /\ first_time' = [first_time EXCEPT ![h] = FALSE]
        /\ msg' = [msg EXCEPT ![c] = NoMsg]
        /\ sent' = [sent EXCEPT ![c] = <<>>]
        /\ obs' = [obs EXCEPT ![c] = NoObs]
        /\ lastSearch' = [lastSearch EXCEPT ![c] = <<>>]
        /\ history' = [history EXCEPT ![c] = "NoSearch"]
        /\ UNCHANGED <<locals, raised, quota, failures>>

Next ==
    \E c \in Chats :
        \/ \E location \in Locations, response \in Responses :
               RecvLocation(c, location, response)
        \/ \E location \in Locations : RecvLocationSearchFails(c, location)
        \/ \E location \in Locations, response \in Responses :
               RecvLocationMapFails(c, location, response)
        \/ LocSendPhotoDone(c)
        \/ LocSendMessageDone(c)
        \/ \E text \in Texts : RecvText(c, text)
        \/ StartSendMessageDone(c)
        \/ \E data \in QueryData : RecvCallback(c, data)
        \/ CbSendPhotoDone(c)
        \/ CbSendMenuDone(c)
        \/ CbSendDetailDone(c)
        \/ CbSendLocationDone(c)
        \/ SendFails(c)
        \/ Reclaim(c)

Spec == Init /\ [][Next]_vars

\* The ratings a venue can carry, in tenths: 0.0, 0.1, ...
Ratings == 0..MaxRating

\* response["businesses"] holding one venue with the given rating
RatedResponse(rating) ==
    << [name |-> "Gamma", rating |-> rating,
        coordinates |-> [latitude |-> 5, longitude |-> 6],
        display_phone |-> "555-0003",
        location |-> [city |-> "Springfield",
                      display_address |-> <<"3 Main St">>]] >>

\* Location events whose search returns a venue of any rating
NextRatings ==
    \E c \in Chats :
        \/ \E location \in Locations, rating \in Ratings :
               RecvLocation(c, location, RatedResponse(rating))
        \/ LocSendPhotoDone(c)
        \/ LocSendMessageDone(c)

\* One chat is enough to see every rating
InitRatings == Init /\ quota = [c \in Chats |-> IF c = FirstChat THEN MaxEvents ELSE 0]

SpecRatings == InitRatings /\ [][NextRatings]_vars


(***************************************************************************)
(* Vocabulary of the properties.                                           *)
(***************************************************************************)
\* msg[c] is a callback query the handler takes for a bar selection
IsSelection(c) == /\ msg[c].flavor = "callback_query"
                  /\ startswith(msg[c].data, BarPrefix)

\* The handler has finished with msg[c]: it returned or raised
Finished(c) == pc[c] = "idle" /\ msg[c].flavor # "none"

IsPhoto(s) == s.op = "sendPhoto"
IsMenu(s) == s.op = "sendMessage" /\ s.parse_mode = "none"
IsDetail(s) == s.op = "sendMessage" /\ s.parse_mode = "Markdown"
IsPin(s) == s.op = "sendLocation"

AllAttributes == {"_list_of_bars", "_map_url",
                  "_inline_bar_selection_keyboard", "_first_time"}

TokenNumber(c) == int(SliceFrom(msg[c].data, 4))

TokenIsNumber(c) == IsSelection(c) /\ IntParses(SliceFrom(msg[c].data, 4))

\* C2: a selection whose number is outside 1..N, N the length of the
\* session's venue list, is rejected: it is never resolved to a venue, no
\* detail message is sent for it and it does not end in an IndexError
\* (stated for a session that holds a menu of at least one venue).
C2_StaleTokensRejected ==
    \A c \in Chats :
        ( /\ TokenIsNumber(c)
          /\ "_first_time" \in attrs[Delegate(c)]
          /\ list_of_bars[Delegate(c)] # <<>>
          /\ TokenNumber(c) \notin 1..Len(list_of_bars[Delegate(c)]) ) =>
            /\ raised[c] # "IndexError"
            /\ pc[c] \notin {"cb_sendDetail", "cb_sendLocation"}
            /\ \A i \in 1..Len(sent[c]) : ~IsDetail(sent[c][i])

(***************************************************************************)
(* C3                                                                      *)
(***************************************************************************)
\* C3: for a token bar_k with 1 <= k <= N, N the length of the list the
\* chat's most recent search stored, the handler resolves the bar at
\* position k of that list (0-based k-1), never faults on the number, and
\* the detail message and the pin it sends are built from that bar.
C3_TokenResolvesPosition ==
    \A c \in Chats :
        ( /\ TokenIsNumber(c)
          /\ "_list_of_bars" \in attrs[Delegate(c)]
          /\ TokenNumber(c) \in 1..Len(lastSearch[c]) ) =>
            LET bar == lastSearch[c][TokenNumber(c)]
            IN  /\ list_of_bars[Delegate(c)] = lastSearch[c]
                /\ raised[c] \notin {"IndexError", "ValueError"}
                /\ pc[c] \in {"cb_sendDetail", "cb_sendLocation"} =>
                       locals[c].bar = bar
                /\ \A i \in 1..Len(sent[c]) :
                       /\ IsDetail(sent[c][i]) =>
                              sent[c][i].text = ExtraInfoOfBar(bar)
                       /\ IsPin(sent[c][i]) =>
                              /\ sent[c][i].latitude = bar.coordinates.latitude
                              /\ sent[c][i].longitude = bar.coordinates.longitude
                /\ (Finished(c) /\ raised[c] = "none") =>
                       \E i \in 1..Len(sent[c]) : IsDetail(sent[c][i])

\* bar_2 has been answered from the second of two different bars.
C3_Witness ==
    \E c \in Chats :
        /\ TokenIsNumber(c) /\ Finished(c) /\ raised[c] = "none"
        /\ TokenNumber(c) = 2
        /\ Len(lastSearch[c]) = 2
        /\ lastSearch[c][1] # lastSearch[c][2]
        /\ \E i \in 1..Len(sent[c]) : IsPin(sent[c][i])


(***************************************************************************)
(* C4                                                                      *)
(***************************************************************************)
\* Callback data that is not bar_<n>: no prefix, or no number after it
Malformed(c) == /\ msg[c].flavor = "callback_query"
                /\ ~TokenIsNumber(c)

\* C4: a callback whose data is not bar_<n> is silently ignored: the
\* handler sends nothing and raises nothing (stated for a session whose
\* search has completed).
C4_MalformedTokenIgnored ==
    \A c \in Chats :
        (Malformed(c) /\ "_first_time" \in attrs[Delegate(c)]) =>
            /\ sent[c] = <<>>
            /\ raised[c] = "none"
            /\ pc[c] = "idle"

(***************************************************************************)
(* C5                                                                      *)
(***************************************************************************)
\* C5: a selection that arrives at a handler whose venue list was never
\* populated is not ended by a fault on the missing attribute.
C5_UnpopulatedSessionNoFault ==
    \A c \in Chats :
        ( /\ TokenIsNumber(c) /\ Finished(c)
          /\ "_list_of_bars" \notin attrs[Delegate(c)] ) =>
            raised[c] # "AttributeError"

(***************************************************************************)
(* C6                                                                      *)
(***************************************************************************)
\* A step in which chat c's handler does not run
Stays(c) == pc'[c] = pc[c] /\ quota'[c] = quota[c]

SessionOf(c) ==
    <<attrs[Delegate(c)], list_of_bars[Delegate(c)], map_url[Delegate(c)],
      inline_bar_selection_keyboard[Delegate(c)], first_time[Delegate(c)]>>

\* What chat c's stored attributes hold comes from chat c's own searches
OwnSearch(c) ==
    /\ "_list_of_bars" \in attrs[Delegate(c)] =>
           list_of_bars[Delegate(c)] = lastSearch[c]
    /\ pc[c] \in {"cb_sendDetail", "cb_sendLocation"} =>
           \E i \in 1..Len(lastSearch[c]) : locals[c].bar = lastSearch[c][i]
    /\ (IsSelection(c) /\ Len(sent[c]) >= 1 /\ IsPhoto(sent[c][1])) =>
           sent[c][1].photo = map_url[Delegate(c)]

\* C6: in every interleaving of the chats' handlers, a step of one chat's
\* handler leaves every other chat's stored venue list, map URL, menu and
\* flag (and what was sent to it) as they were, and a chat's selection is
\* resolved against the list of that chat's own latest search.
C6_ChatsIsolated ==
    /\ [](\A c \in Chats : OwnSearch(c))
    /\ [][\A c \in Chats :
             Stays(c) => /\ SessionOf(c)' = SessionOf(c)
                         /\ sent'[c] = sent[c]
                         /\ lastSearch'[c] = lastSearch[c]]_vars

\* Two chats hold different venue lists and one of them has had a selection
\* answered while the other was in the middle of its location event.
C6_Witness ==
    \E c, d \in Chats :
        /\ c # d
        /\ "_list_of_bars" \in attrs[Delegate(c)]
        /\ "_list_of_bars" \in attrs[Delegate(d)]
        /\ list_of_bars[Delegate(c)] # list_of_bars[Delegate(d)]
        /\ IsSelection(c) /\ Finished(c) /\ raised[c] = "none"
        /\ \E i \in 1..Len(sent[c]) : IsPin(sent[c][i])
        /\ pc[d] = "loc_sendMessage"

(***************************************************************************)
(* C7                                                                      *)
(***************************************************************************)
\* What a location event that runs to completion sends and stores
LocationOutcome(c) ==
    LET h == Delegate(c)
        url == create_map(msg[c].location.latitude, msg[c].location.longitude,
                          MapMarkers(lastSearch[c]))
        markup == InlineKeyboardMarkup(InlineKeyboard(lastSearch[c]))
    IN  /\ sent[c] = <<SendPhoto(url), SendMessage(LocationPrompt, markup, "none")>>
        /\ attrs[h] = AllAttributes
        /\ list_of_bars[h] = lastSearch[c]
        /\ map_url[h] = url
        /\ inline_bar_selection_keyboard[h] = markup
        /\ first_time[h] = TRUE

C8_HelpMessageSent ==
    \A c \in Chats :
        ( /\ msg[c].content_type = "text"
          /\ Command(msg[c].text) = HelpCommand
          /\ Finished(c) ) =>
            \E i \in 1..Len(sent[c]) :
                /\ sent[c][i].op = "sendMessage"
                /\ sent[c][i].text = HELP_MESSAGE


(***************************************************************************)
(* C9                                                                      *)
(***************************************************************************)
\* Where the option number of a menu text ends
FirstDot(text) == CHOOSE j \in 1..Len(text) :
                      /\ text[j] = "."
                      /\ \A k \in 1..(j - 1) : text[k] # "."

\* Menu entry i carries the token bar_i and a text numbered i that names
\* venue i
MenuMatches(keyboard, bars) ==
    /\ Len(keyboard) = Len(bars)
    /\ \A i \in 1..Len(bars) :
           /\ Len(keyboard[i]) = 1
           /\ LET button == keyboard[i][1]
                  number == SliceFrom(button.callback_data, 4)
              IN  /\ startswith(button.callback_data, BarPrefix)
                  /\ IntParses(number) /\ int(number) = i
                  /\ \E j \in 1..Len(button.text) : button.text[j] = "."
                  /\ int(SubSeq(button.text, 1, FirstDot(button.text) - 1)) = i
                  /\ button.text[FirstDot(button.text) + 2] = bars[i].name

\* Marker i is labelled i and stands at venue i's coordinates
MarkersMatch(markers, bars) ==
    /\ Len(markers) = Len(bars)
    /\ \A i \in 1..Len(bars) :
           /\ IntParses(markers[i].label) /\ int(markers[i].label) = i
           /\ markers[i].lat = bars[i].coordinates.latitude
           /\ markers[i].lon = bars[i].coordinates.longitude

\* C9: in a location event, the menu and the map the handler builds, stores
\* and sends have one entry and one marker per venue of the search result,
\* in the result's order: entry i carries bar_i and a text numbered i for
\* venue i, marker i is labelled i and placed at venue i's coordinates.
C9_MenuAndMarkersFollowResults ==
    \A c \in Chats :
        msg[c].content_type = "location" =>
            /\ pc[c] \in {"loc_sendPhoto", "loc_sendMessage"} =>
                   /\ MarkersMatch(map_url[Delegate(c)].markers, lastSearch[c])
                   /\ MenuMatches(locals[c].inline_keyboard, lastSearch[c])
            /\ \A j \in 1..Len(sent[c]) :
                   /\ IsPhoto(sent[c][j]) =>
                          MarkersMatch(sent[c][j].photo.markers, lastSearch[c])
                   /\ IsMenu(sent[c][j]) =>
                          MenuMatches(sent[c][j].reply_markup.inline_keyboard,
                                      lastSearch[c])

\* Map and menu of a result of two different venues have been sent.
C9_Witness ==
    \E c \in Chats :
        /\ msg[c].content_type = "location"
        /\ Finished(c) /\ raised[c] = "none"
        /\ Len(sent[c]) = 2
        /\ Len(lastSearch[c]) = 2
        /\ lastSearch[c][1] # lastSearch[c][2]

(***************************************************************************)
(* C10                                                                     *)
(***************************************************************************)
\* A step of chat c's handler in the text branch: the text arrives, or the
\* awaited welcome message returns or fails
TextStep(c) == /\ msg'[c].content_type = "text"
               /\ \/ quota'[c] # quota[c]
                  \/ pc[c] = "start_sendMessage"

\* C10: no step of the text branch, for any text and in any session state,
\* changes the stored venue list, map URL, menu or flag, or which of them
\* are set.
C10_TextLeavesSession ==
    [][\A c \in Chats : TextStep(c) => SessionOf(c)' = SessionOf(c)]_vars

\* A text has been handled in a session that holds a search and has shown
\* a detail already.
C10_Witness ==
    \E c \in Chats :
        /\ msg[c].content_type = "text"
        /\ Finished(c)
        /\ attrs[Delegate(c)] = AllAttributes
        /\ first_time[Delegate(c)] = FALSE
        /\ list_of_bars[Delegate(c)] # <<>>


(***************************************************************************)
(* C11                                                                     *)
(***************************************************************************)
IsTextCommand(c, command) == /\ msg[c].content_type = "text"
                             /\ Command(msg[c].text) = command

\* C11: a "/start" text, in whatever state the session is, is answered by
\* exactly one send: a text message carrying the welcome text, with the
\* keyboard whose one button requests the location.  Nothing else is sent,
\* and nothing is sent before the awaited send returns.
C11_StartSendsWelcome ==
    \A c \in Chats :
        IsTextCommand(c, StartCommand) =>
            /\ pc[c] \in {"start_sendMessage", "idle"}
            /\ pc[c] = "start_sendMessage" => sent[c] = <<>>
            /\ (Finished(c) /\ raised[c] = "none") =>
                   /\ Len(sent[c]) = 1
                   /\ sent[c][1].op = "sendMessage"
                   /\ sent[c][1].text = WELCOME_MESSAGE
                   /\ Len(sent[c][1].reply_markup.keyboard) = 1
                   /\ Len(sent[c][1].reply_markup.keyboard[1]) = 1
                   /\ sent[c][1].reply_markup.keyboard[1][1].request_location
                   /\ sent[c][1].reply_markup.keyboard[1][1].text =
                          "Bars near my location"
            /\ (Finished(c) /\ raised[c] # "none") => sent[c] = <<>>

\* "/start" has been answered in a session that holds a search and has
\* shown a detail already.
C11_Witness ==
    \E c \in Chats :
        /\ IsTextCommand(c, StartCommand)
        /\ Finished(c) /\ raised[c] = "none"
        /\ Len(sent[c]) = 1
        /\ attrs[Delegate(c)] = AllAttributes
        /\ first_time[Delegate(c)] = FALSE

(***************************************************************************)
(* C12                                                                     *)
(***************************************************************************)
\* text.splitlines(): the lines of a text, cut at its "\n" atoms
RECURSIVE SplitLines(_, _)
SplitLines(text, line) ==
    IF text = <<>> THEN (IF line = <<>> THEN <<>> ELSE <<line>>)
    ELSE IF Head(text) = "\n" THEN <<line>> \o SplitLines(Tail(text), <<>>)
    ELSE SplitLines(Tail(text), Append(line, Head(text)))

Lines(text) == SplitLines(text, <<>>)

HasAtom(text, a) == \E i \in 1..Len(text) : text[i] = a

HasBlankLine(text) == \E i \in 1..Len(Lines(text)) : Lines(text)[i] = <<>>

\* The detail messages sent for venue bar show the field they have and
\* nothing for the field they lack
DetailOmitsEmptyField(detail, bar) ==
    /\ Lines(detail)[1] = <<"*", bar.name, "*">>
    /\ (bar.display_phone # "" /\ bar.display_address = <<>>) =>
           /\ Lines(detail) = << <<"*", bar.name, "*">>,
                                 <<"TELEPHONE_GLYPH", " ", bar.display_phone>> >>
           /\ ~HasBlankLine(detail)
    /\ (bar.display_phone = "" /\ bar.display_address # <<>>) =>
           /\ Lines(detail) = << <<"*", bar.name, "*">> >> \o Lines(bar.display_address)
           /\ ~HasAtom(detail, "TELEPHONE_GLYPH")
           /\ ~HasBlankLine(detail)
    /\ (bar.display_phone = "" /\ bar.display_address = <<>>) =>
           Lines(detail) = << <<"*", bar.name, "*">> >>

\* C12: the detail message of a venue with a phone and no address holds the
\* name line and the phone line and no other line; that of a venue with an
\* address and no phone holds the name line and the address and no phone
\* line; in neither is the missing field a blank line.
C12_EmptyFieldOmitted ==
    \A c \in Chats :
        ( /\ TokenIsNumber(c)
          /\ TokenNumber(c) \in 1..Len(lastSearch[c]) ) =>
            \A i \in 1..Len(sent[c]) :
                IsDetail(sent[c][i]) =>
                    DetailOmitsEmptyField(sent[c][i].text,
                                          lastSearch[c][TokenNumber(c)])

\* The details of a venue with only a phone and of a venue with only an
\* address have been sent.
C12_Witness ==
    \E c \in Chats :
        /\ TokenIsNumber(c) /\ Finished(c) /\ raised[c] = "none"
        /\ TokenNumber(c) \in 1..Len(lastSearch[c])
        /\ lastSearch[c][TokenNumber(c)].display_phone # ""
        /\ lastSearch[c][TokenNumber(c)].display_address = <<>>
        /\ \E i \in 1..Len(sent[c]) : IsDetail(sent[c][i])

(***************************************************************************)
(* C13                                                                     *)
(***************************************************************************)
\* C13: a text whose command is neither "/start" nor "/help" is answered
\* with nothing: the handler returns at once, sends nothing and raises
\* nothing.
C13_OtherTextIgnored ==
    \A c \in Chats :
        ( /\ msg[c].content_type = "text"
          /\ Command(msg[c].text) \notin {StartCommand, HelpCommand} ) =>
            /\ pc[c] = "idle"
            /\ sent[c] = <<>>
            /\ raised[c] = "none"

\* Such a text has been handled in a session that holds a search.
C13_Witness ==
    \E c \in Chats :
        /\ msg[c].content_type = "text"
        /\ Command(msg[c].text) \notin {StartCommand, HelpCommand}
        /\ Finished(c)
        /\ attrs[Delegate(c)] = AllAttributes

(***************************************************************************)
(* C14                                                                     *)
(***************************************************************************)
\* The rating as a menu button shows it: what follows the star and a blank
RatingShown(text) ==
    LET j == CHOOSE j \in 1..Len(text) : text[j] = "STAR_GLYPH"
    IN  SubSeq(text, j + 2, Len(text))

DotCount(t) == Cardinality({ i \in 1..Len(t) : t[i] = "." })

RatingWellFormatted(t, rating) ==
    IF rating % 10 = 0
    THEN /\ DotCount(t) = 0
         /\ \A i \in 1..Len(t) : IsDigit(t[i])
         /\ NatValue(t, 0) = rating \div 10
    ELSE /\ DotCount(t) = 1
         /\ Len(t) >= 3
         /\ t[Len(t) - 1] = "."
         /\ IsDigit(t[Len(t)])
         /\ DigitValue(t[Len(t)]) = rating % 10
         /\ \A i \in 1..(Len(t) - 2) : IsDigit(t[i])
         /\ NatValue(SubSeq(t, 1, Len(t) - 2), 0) = rating \div 10

\* C14: in the menu a location event sends, a venue whose rating is a whole
\* number is shown with its digits and no decimal point, and a venue whose
\* rating is not whole is shown with exactly one digit after the point
\* (4.0 as "4", 4.5 as "4.5").
C14_RatingFormat ==
    \A c \in Chats :
        msg[c].content_type = "location" =>
            \A k \in 1..Len(sent[c]) :
                IsMenu(sent[c][k]) =>
                    /\ Len(sent[c][k].reply_markup.inline_keyboard)
                           = Len(lastSearch[c])
                    /\ \A i \in 1..Len(lastSearch[c]) :
                           RatingWellFormatted(
                               RatingShown(sent[c][k].reply_markup
                                               .inline_keyboard[i][1].text),
                               lastSearch[c][i].rating)

\* A menu showing a venue with a fractional rating above 1 has been sent.
C14_Witness ==
    \E c \in Chats :
        /\ msg[c].content_type = "location"
        /\ Finished(c) /\ raised[c] = "none"
        /\ Len(sent[c]) = 2 /\ IsMenu(sent[c][2])
        /\ Len(lastSearch[c]) = 1
        /\ lastSearch[c][1].rating % 10 # 0
        /\ lastSearch[c][1].rating > 10

(***************************************************************************)
(* C15                                                                     *)
(***************************************************************************)
\* C15: a location event sends the map image first and the prompt with the
\* menu second: the prompt is never the first send and never follows
\* anything but the image, and an event that ran to its end has made
\* exactly these two sends.
C15_ImageThenPrompt ==
    \A c \in Chats :
        msg[c].content_type = "location" =>
            /\ Len(sent[c]) <= 2
            /\ Len(sent[c]) >= 1 =>
                   /\ IsPhoto(sent[c][1])
                   /\ sent[c][1].photo = map_url[Delegate(c)]
            /\ Len(sent[c]) = 2 =>
                   /\ IsMenu(sent[c][2])
                   /\ sent[c][2].text = LocationPrompt
                   /\ sent[c][2].reply_markup =
                          inline_bar_selection_keyboard[Delegate(c)]
            /\ pc[c] = "loc_sendPhoto" => sent[c] = <<>>
            /\ pc[c] = "loc_sendMessage" => Len(sent[c]) = 1
            /\ (Finished(c) /\ raised[c] = "none") => Len(sent[c]) = 2

\* A location event with venues has run to its end.
C15_Witness ==
    \E c \in Chats :
        /\ msg[c].content_type = "location"
        /\ Finished(c) /\ raised[c] = "none"
        /\ Len(sent[c]) = 2
        /\ Len(sent[c][2].reply_markup.inline_keyboard) = MaxResults

(***************************************************************************)
(* C16                                                                     *)
(***************************************************************************)
\* The stored venue list, map URL and menu are all absent, or all present
\* and built from the same search
SessionCoherent(h) ==
    /\ attrs[h] \in {{}, AllAttributes}
    /\ attrs[h] = AllAttributes =>
           /\ MarkersMatch(map_url[h].markers, list_of_bars[h])
           /\ MenuMatches(inline_bar_selection_keyboard[h].inline_keyboard,
                          list_of_bars[h])
           /\ \A i \in 1..Len(list_of_bars[h]) :
                  inline_bar_selection_keyboard[h].inline_keyboard[i][1].text
                      = BarText(i, list_of_bars[h][i])

\* C16: after a location event, whether it ran to its end or was aborted,
\* the stored venue list, map URL, menu and flag are all those of the new
\* search or all as they were before the event: the handler never leaves
\* the venues of one search next to the map or menu of another, nor some of
\* the attributes set and the others not.
C16_LocationUpdateAllOrNothing ==
    \A c \in Chats :
        (msg[c].content_type = "location" /\ Finished(c)) =>
            SessionCoherent(Delegate(c))

(***************************************************************************)
(* C17                                                                     *)
(***************************************************************************)
\* The step in which chat c's selection ends on its number: the text after
\* bar_ is not a number, or the number is outside the stored list
SelectionFails(c) ==
    /\ ~Stays(c)
    /\ msg'[c].flavor = "callback_query"
    /\ startswith(msg'[c].data, BarPrefix)
    /\ raised'[c] \in {"ValueError", "IndexError"}

\* C17: a selection that ends without a detail view, because what follows
\* bar_ is not a number or is out of range, leaves the stored venue list,
\* map URL, menu and first-selection flag as they were: the flag is not
\* consumed.
C17_FailedSelectionKeepsSession ==
    [][\A c \in Chats :
           SelectionFails(c) => SessionOf(c)' = SessionOf(c)]_vars

=============================================================================
